---- MODULE Spec2Model ----
(***************************************************************************)
(* SimpleVector<Type> (simple_vector.h) over ArrayPtr<Type> (array_ptr.h). *)
(* A program holds the vectors of Vecs; every member function is one       *)
(* action.  The heap maps buffer addresses to slot arrays, so ownership,   *)
(* aliasing and reads outside a buffer are visible in the state.           *)
(***************************************************************************)
EXTENDS Integers, Sequences, FiniteSets, TLC

\* ---------------------------------------------------------------- bounds
\* largest capacity a buffer is allocated with when the program uses one vector
MaxCap == 4
\* largest capacity a buffer is allocated with when the program uses two vectors
MaxCapTwo == 2
\* element values are 0..MaxVal
MaxVal == 1
\* number of heap addresses
MaxBufs == 3

VecOrder == <<"a", "b">>
Vecs == {VecOrder[i] : i \in 1..Len(VecOrder)}
BufIds == 1..MaxBufs
\* nullptr
Null == 0
\* Type(): the value-initialised element
Default == 0
Forms == {"copy", "move"}

VARIABLES
    vec,        \* vec[v] = [alive, size_, capacity_, data_]
    heap,       \* heap[p] = [live, slots]: the array new Type[n] at address p
    typeKind,   \* "trivial": a move leaves its source as it was (int);
                \* "movable": a move leaves its source empty (std::string)
    capLimit,   \* the largest array the allocator grants
    Vals,       \* the element values the program uses
    last,       \* the call under observation: its name, arguments and result, and
                \* the vectors before it; "none" while no call is observed
    doubleFree, \* a buffer was released twice
    crashed     \* an access outside a buffer ended the program

vars == <<vec, heap, typeKind, capLimit, Vals, last, doubleFree, crashed>>

\* ---------------------------------------------------------------- elements
\* the state a moved-from element is left in
MovedFrom(x) == IF typeKind = "trivial" THEN x ELSE Default

Max(x, y) == IF x >= y THEN x ELSE y

\* ---------------------------------------------------------------- ArrayPtr
NoBuf == [live |-> FALSE, slots |-> <<>>]

FreeIds(h) == {p \in BufIds : ~h[p].live}

\* new Type[n] succeeds
CanAlloc(h, n) == n <= capLimit /\ (n = 0 \/ FreeIds(h) # {})

\* ArrayPtr(size): nullptr for size 0, else size value-initialised slots
ArrayPtrNew(h, n) ==
    IF n = 0 THEN [h |-> h, p |-> Null]
    ELSE LET p == CHOOSE q \in FreeIds(h) : \A r \in FreeIds(h) : q <= r
         IN  [h |-> [h EXCEPT ![p] = [live |-> TRUE, slots |-> [i \in 1..n |-> Default]]],
              p |-> p]

\* ~ArrayPtr(): delete[] raw_ptr_
ArrayPtrDelete(h, p) == IF p = Null THEN h ELSE [h EXCEPT ![p] = NoBuf]

\* delete[] of a buffer that is not allocated
IsDoubleFree(h, p) == p # Null /\ ~h[p].live

\* number of slots of the buffer at p
NSlots(h, p) == IF p = Null THEN 0 ELSE Len(h[p].slots)

\* p[i] lies inside the buffer at p
InBuf(h, p, i) == i >= 0 /\ i < NSlots(h, p)

\* read p[i]; a read outside the buffer yields g
Rd(h, p, i, g) == IF InBuf(h, p, i) THEN h[p].slots[i + 1] ELSE g

\* p[i] = x; a write outside the buffer does not reach any buffer
Wr(h, p, i, x) == IF InBuf(h, p, i) THEN [h EXCEPT ![p].slots[i + 1] = x] ELSE h

\* ---------------------------------------------------------------- <algorithm>
RECURSIVE StdCopy(_, _, _, _, _, _, _)
\* std::copy(sp + first, sp + last, dp + d)
StdCopy(h, sp, first, lst, dp, d, g) ==
    IF first >= lst THEN h
    ELSE StdCopy(Wr(h, dp, d, Rd(h, sp, first, g)), sp, first + 1, lst, dp, d + 1, g)

\* a variant of StdCopyBackward: the range is copied from its first element up, as
\* std::copy does
StdCopyFromFront(h, sp, first, lst, dp, dlast, g) ==
    StdCopy(h, sp, first, lst, dp, dlast - (lst - first), g)

RECURSIVE StdCopyBackward(_, _, _, _, _, _, _)
\* std::copy_backward(sp + first, sp + last, dp + dlast)
StdCopyBackward(h, sp, first, lst, dp, dlast, g) ==
    IF first >= lst THEN h
    ELSE StdCopyBackward(Wr(h, dp, dlast - 1, Rd(h, sp, lst - 1, g)),
                         sp, first, lst - 1, dp, dlast - 1, g)

RECURSIVE StdMoveBackward(_, _, _, _, _, _, _)
\* std::move_backward(sp + first, sp + last, dp + dlast)
StdMoveBackward(h, sp, first, lst, dp, dlast, g) ==
    IF first >= lst THEN h
    ELSE LET x  == Rd(h, sp, lst - 1, g)
             h1 == Wr(h, dp, dlast - 1, x)
             h2 == Wr(h1, sp, lst - 1, MovedFrom(x))
         IN  StdMoveBackward(h2, sp, first, lst - 1, dp, dlast - 1, g)

\* a variant of StdMove: the range is moved from its last element down, as
\* std::move_backward does
StdMoveFromBack(h, sp, first, lst, dp, d, g) ==
    StdMoveBackward(h, sp, first, lst, dp, d + (lst - first), g)

RECURSIVE StdMove(_, _, _, _, _, _, _)
\* std::move(sp + first, sp + last, dp + d): each source is left moved-from
StdMove(h, sp, first, lst, dp, d, g) ==
    IF first >= lst THEN h
    ELSE LET x  == Rd(h, sp, first, g)
             h1 == Wr(h, dp, d, x)
             h2 == Wr(h1, sp, first, MovedFrom(x))
         IN  StdMove(h2, sp, first + 1, lst, dp, d + 1, g)

\* a variant of StdFill: the slots are left as they are
StdFillNothing(h, p, first, lst, x) == h

RECURSIVE StdFill(_, _, _, _, _)
\* std::fill(p + first, p + last, x); std::generate with a generator of the constant x
StdFill(h, p, first, lst, x) ==
    IF first >= lst THEN h
    ELSE StdFill(Wr(h, p, first, x), p, first + 1, lst, x)

RECURSIVE GenerateMoved(_, _, _, _, _)
\* std::generate(p + first, p + last, [&value]() { return std::move(value); })
GenerateMoved(h, p, first, lst, value) ==
    IF first >= lst THEN h
    ELSE GenerateMoved(Wr(h, p, first, value), p, first + 1, lst, MovedFrom(value))

RECURSIVE CopyList(_, _, _, _)
\* std::copy(init.begin(), init.end(), p)
CopyList(h, p, init, d) ==
    IF init = <<>> THEN h
    ELSE CopyList(Wr(h, p, d, Head(init)), p, Tail(init), d + 1)

\* ---------------------------------------------------------------- SimpleVector state
\* a vector that is not constructed
Dead == [alive |-> FALSE, size_ |-> 0, capacity_ |-> 0, data_ |-> Null]

\* a variant of Empty: capacity_ has the default member initialiser 1
EmptyWithCapacity == [alive |-> TRUE, size_ |-> 0, capacity_ |-> 1, data_ |-> Null]

\* size_ = 0, capacity_ = 0, data_ = nullptr: the default member initialisers
Empty == [alive |-> TRUE, size_ |-> 0, capacity_ |-> 0, data_ |-> Null]

Alive(v) == vec[v].alive

\* every index below size_ and below capacity_ is a slot of the owned buffer
WellFormed(vs, h, v) ==
    /\ vs[v].size_ <= NSlots(h, vs[v].data_)
    /\ vs[v].capacity_ <= NSlots(h, vs[v].data_)

\* the elements [0, size_) of a well-formed vector
Elems(vs, h, v) == [i \in 1..vs[v].size_ |-> Rd(h, vs[v].data_, i - 1, Default)]

\* what an observed call records of a vector before it runs
Snap(v) ==
    [alive |-> vec[v].alive, size |-> vec[v].size_, cap |-> vec[v].capacity_,
     data |-> vec[v].data_,
     wf |-> WellFormed(vec, heap, v),
     elems |-> IF WellFormed(vec, heap, v) THEN Elems(vec, heap, v) ELSE <<>>,
     slots |-> IF vec[v].data_ = Null THEN <<>> ELSE heap[vec[v].data_].slots]

NoSnap ==
    [alive |-> FALSE, size |-> 0, cap |-> 0, data |-> Null, wf |-> TRUE, elems |-> <<>>,
     slots |-> <<>>]

\* results of a call
NoRet == [kind |-> "none"]
RetIter(p, off) == [kind |-> "iter", buf |-> p, off |-> off]
RetRef(p, i, x) == [kind |-> "ref", buf |-> p, off |-> i, val |-> x]
RetThrow(what) == [kind |-> "throw", what |-> what]

\* no call is observed
NoCall ==
    [op |-> "none", v |-> "a", w |-> "a", form |-> "none", arg |-> Default, idx |-> 0,
     init |-> <<>>, ret |-> NoRet, ub |-> FALSE, pre |-> [u \in Vecs |-> NoSnap],
     pushes |-> 0, replaced |-> FALSE, failed |-> FALSE]

\* the call op on v (and w) with the value arg and the index or count idx
Call(op, v, w, form, arg, idx) ==
    [NoCall EXCEPT !.op = op, !.v = v, !.w = w, !.form = form, !.arg = arg, !.idx = idx,
                   !.pre = [u \in Vecs |-> Snap(u)]]

\* the observed call was Reserve on call.v, and call is a PushBack on the same vector:
\* the observation goes on, counting the PushBacks and noting a replaced buffer
FollowsReserve(call) ==
    last.op = "Reserve" /\ ~last.ub /\ call.op = "PushBack" /\ call.v = last.v

\* the same after an observed Clear
FollowsClear(call) ==
    last.op = "Clear" /\ ~last.ub /\ call.op = "PushBack" /\ call.v = last.v

\* the observed call returned, and no PushBack observed after it has thrown
Open == last.ret.kind # "throw" /\ ~last.failed

\* The program runs unobserved until one call is observed; the observed call is the
\* program's last, except that PushBacks after an observed Reserve are observed too.
\* The state after an unobserved call is kept with its addresses renamed.
Observe(call, nv, ret, oob) ==
    IF last.op = "none"
    THEN {NoCall, [call EXCEPT !.ret = ret, !.ub = oob]}
    ELSE {[last EXCEPT !.pushes = @ + 1,
                       !.ub = oob,
                       !.replaced = @ \/ nv[call.v].data_ # vec[call.v].data_,
                       !.failed = (ret.kind = "throw")]}

\* Addresses are only compared for equality, so a run does not depend on which
\* address a buffer has.  AddrOrder lists the addresses: first those the vectors
\* hold, in the order of VecOrder, then the others in increasing order.
RECURSIVE HeldAddrs(_, _, _)
HeldAddrs(vs, i, acc) ==
    IF i > Len(VecOrder) THEN acc
    ELSE LET p == vs[VecOrder[i]].data_
         IN  HeldAddrs(vs, i + 1,
                       IF p = Null \/ (\E k \in 1..Len(acc) : acc[k] = p)
                       THEN acc ELSE Append(acc, p))

RECURSIVE OtherAddrs(_, _, _)
OtherAddrs(held, p, acc) ==
    IF p > MaxBufs THEN acc
    ELSE OtherAddrs(held, p + 1,
                    IF \E k \in 1..Len(held) : held[k] = p THEN acc ELSE Append(acc, p))

AddrOrder(vs) == LET held == HeldAddrs(vs, 1, <<>>) IN held \o OtherAddrs(held, 1, <<>>)

\* the address p renamed to its place in the order ord
Renamed(ord, p) ==
    IF p = Null THEN Null
    ELSE CHOOSE k \in BufIds : ord[k] = p

\* the vectors and the heap with every address renamed
CanonVec(vs) ==
    LET ord == AddrOrder(vs)
    IN  [v \in Vecs |-> [vs[v] EXCEPT !.data_ = Renamed(ord, @)]]

CanonHeap(vs, h) ==
    LET ord == AddrOrder(vs)
    IN  [k \in BufIds |-> h[ord[k]]]

\* a call can start: the program has not crashed and no call has been observed yet
Running == ~crashed /\ last.op = "none"

\* A call ends: with the new state nv, nh and result ret; or, when it accessed memory
\* outside a buffer (oob), possibly with the end of the program and of its memory.
Commit(call, nv, nh, ret, df, oob) ==
    /\ Running \/ (~crashed /\ Open /\ (FollowsReserve(call) \/ FollowsClear(call)))
    /\ \/ /\ last' \in Observe(call, nv, ret, oob)
          /\ IF last'.op = "none"
             THEN vec' = CanonVec(nv) /\ heap' = CanonHeap(nv, nh)
             ELSE vec' = nv /\ heap' = nh
          /\ doubleFree' = (doubleFree \/ df)
          /\ crashed' = FALSE
       \/ /\ oob
          /\ crashed' = TRUE
          /\ last' = [call EXCEPT !.ub = TRUE]
          /\ vec' = [v \in Vecs |-> Dead]
          /\ heap' = [p \in BufIds |-> NoBuf]
          /\ UNCHANGED doubleFree
    /\ UNCHANGED <<typeKind, capLimit, Vals>>

\* a variant of AllocFails: the vector is emptied before the allocation is tried
AllocFailsLate(call) ==
    Commit(call, [vec EXCEPT ![call.v].size_ = 0], heap, RetThrow("std::bad_alloc"),
           FALSE, FALSE)

\* ArrayPtr<Type> new_data(n) throws std::bad_alloc: the call ends there, before any
\* statement that follows the allocation
AllocFails(call) == Commit(call, vec, heap, RetThrow("std::bad_alloc"), FALSE, FALSE)

\* new Type[n] can throw: for every n > 0
MayFail(n) == n > 0

\* the range [first, lst) of the buffer at p reaches outside it
RangeOob(h, p, first, lst) == first < lst /\ (first < 0 \/ lst > NSlots(h, p))

\* the values a read outside a buffer can yield
Garbage(oob) == IF oob THEN Vals ELSE {Default}

\* ArrayPtr::swap: the two raw pointers change places
ArrayPtrSwap(p, q) == [p |-> q, q |-> p]

\* ArrayPtr& operator=(ArrayPtr&&) of p from q: the target releases its buffer and
\* takes the source's, which is left null ("release"), or the two exchange their
\* buffers ("exchange")
ArrayPtrMoveAssign(h, p, q, how) ==
    IF how = "release"
    THEN [h |-> ArrayPtrDelete(h, p), p |-> q, q |-> Null, df |-> IsDoubleFree(h, p)]
    ELSE [h |-> h, p |-> q, q |-> p, df |-> FALSE]

MoveAssignHow == {"release", "exchange"}

\* a variant of SwapObj: this takes other's buffer, and other keeps it
SwapObjShared(x, y) ==
    [this  |-> [x EXCEPT !.capacity_ = y.capacity_, !.size_ = y.size_, !.data_ = y.data_],
     other |-> [y EXCEPT !.capacity_ = x.capacity_, !.size_ = x.size_]]

\* a variant of SwapObj: the capacities and the buffers change places, the sizes do not
SwapObjNoSize(x, y) ==
    [this  |-> [x EXCEPT !.capacity_ = y.capacity_, !.data_ = y.data_],
     other |-> [y EXCEPT !.capacity_ = x.capacity_, !.data_ = x.data_]]

\* SimpleVector::swap on two objects x (this) and y (other)
SwapObj(x, y) ==
    LET d == ArrayPtrSwap(x.data_, y.data_)
    IN  [this  |-> [x EXCEPT !.capacity_ = y.capacity_, !.size_ = y.size_, !.data_ = d.p],
         other |-> [y EXCEPT !.capacity_ = x.capacity_, !.size_ = x.size_, !.data_ = d.q]]

\* a variant of GrowCapacity: capacity_ * 2, also for capacity_ = 0
GrowCapacityNoFloor(c) == c * 2

\* a variant of GrowCapacity: capacity_ + 1
GrowCapacityByOne(c) == c + 1

\* capacity_ == 0 ? 1 : capacity_ * 2
GrowCapacity(c) == IF c = 0 THEN 1 ELSE c * 2

\* a variant of IsFull: size_ + 1 >= capacity_
IsFullEarly(t) == t.size_ + 1 >= t.capacity_

\* size_ == capacity_: PushBack and Insert take a new buffer
IsFull(t) == t.size_ = t.capacity_

\* a variant of ReserveGrows: new_capacity >= capacity_
ReserveGrowsOrEqual(new_capacity, c) == new_capacity >= c

\* new_capacity > capacity_: Reserve takes a new buffer
ReserveGrows(new_capacity, c) == new_capacity > c

\* std::max(new_size, capacity_ * 2)
ResizeCapacity(new_size, c) == Max(new_size, c * 2)

\* a variant of AtError: the exception records the index
AtErrorWithIndex(index) ==
    [kind |-> "throw", what |-> "index out of range", index |-> index]

\* throw std::out_of_range("index out of range"), thrown for index
AtError(index) == RetThrow("index out of range")

\* index >= size_: At throws std::out_of_range
AtThrows(index, size) == index >= size

\* ---------------------------------------------------------------- comparison
RECURSIVE StdEqual(_, _, _, _, _, _, _)
\* std::equal(p + first, p + last, q + d)
StdEqual(h, p, first, lst, q, d, g) ==
    IF first >= lst THEN TRUE
    ELSE /\ Rd(h, p, first, g) = Rd(h, q, d, g)
         /\ StdEqual(h, p, first + 1, lst, q, d + 1, g)

RECURSIVE StdLexicographicalCompare(_, _, _, _, _, _, _, _)
\* std::lexicographical_compare(p + first1, p + last1, q + first2, q + last2)
StdLexicographicalCompare(h, p, first1, last1, q, first2, last2, g) ==
    IF first1 >= last1 \/ first2 >= last2
    THEN first1 >= last1 /\ first2 < last2
    ELSE IF Rd(h, p, first1, g) < Rd(h, q, first2, g) THEN TRUE
    ELSE IF Rd(h, q, first2, g) < Rd(h, p, first1, g) THEN FALSE
    ELSE StdLexicographicalCompare(h, p, first1 + 1, last1, q, first2 + 1, last2, g)

\* a variant of OpEqual: std::equal alone, without the comparison of the sizes
OpEqualNoSize(h, lhs, rhs, g) == StdEqual(h, lhs.data_, 0, lhs.size_, rhs.data_, 0, g)

\* operator==
OpEqual(h, lhs, rhs, g) ==
    /\ lhs.size_ = rhs.size_
    /\ StdEqual(h, lhs.data_, 0, lhs.size_, rhs.data_, 0, g)

\* operator!=
OpNotEqual(h, lhs, rhs, g) == ~OpEqual(h, lhs, rhs, g)

\* operator<
OpLess(h, lhs, rhs, g) ==
    StdLexicographicalCompare(h, lhs.data_, 0, lhs.size_, rhs.data_, 0, rhs.size_, g)

\* operator>
OpGreater(h, lhs, rhs, g) == OpLess(h, rhs, lhs, g)

\* operator<=
OpLessEqual(h, lhs, rhs, g) == ~OpGreater(h, lhs, rhs, g)

\* operator>=
OpGreaterEqual(h, lhs, rhs, g) == ~OpLess(h, lhs, rhs, g)

\* the results of the six operators on lhs and rhs
RetCompare(h, lhs, rhs, g) ==
    [kind |-> "compare",
     eq |-> OpEqual(h, lhs, rhs, g), ne |-> OpNotEqual(h, lhs, rhs, g),
     lt |-> OpLess(h, lhs, rhs, g), le |-> OpLessEqual(h, lhs, rhs, g),
     gt |-> OpGreater(h, lhs, rhs, g), ge |-> OpGreaterEqual(h, lhs, rhs, g)]

\* ---------------------------------------------------------------- constructors
\* a variant of ProxyCapacity: the proxy object forgets the capacity
ProxyCapacityZero(capacity_to_reserve) == 0

\* Reserve(capacity_to_reserve).GetCapacity(): the capacity the proxy object carries
ProxyCapacity(capacity_to_reserve) == capacity_to_reserve

\* SimpleVector() noexcept = default
CtorDefault(v) ==
    /\ ~Alive(v)
    /\ Commit(Call("SimpleVector()", v, v, "none", Default, 0),
              [vec EXCEPT ![v] = Empty], heap, NoRet, FALSE, FALSE)

\* SimpleVector(const ReserveProxyObj& obj), obj = Reserve(n)
CtorReserve(v, n) ==
    /\ ~Alive(v)
    /\ LET call == Call("SimpleVector(ReserveProxyObj)", v, v, "none", Default, n)
           cap  == ProxyCapacity(n)
       IN  \/ /\ CanAlloc(heap, cap)
              /\ LET a == ArrayPtrNew(heap, cap)
                 IN  Commit(call,
                            [vec EXCEPT ![v] = [alive |-> TRUE, size_ |-> 0,
                                                capacity_ |-> cap, data_ |-> a.p]],
                            a.h, NoRet, FALSE, FALSE)
           \/ MayFail(cap) /\ AllocFails(call)

\* explicit SimpleVector(size_t size)
CtorSize(v, n) ==
    /\ ~Alive(v)
    /\ LET call == Call("SimpleVector(size)", v, v, "none", Default, n)
       IN  \/ /\ CanAlloc(heap, n)
              /\ LET a  == ArrayPtrNew(heap, n)
                     h1 == StdFill(a.h, a.p, 0, n, Default)
                 IN  Commit(call,
                            [vec EXCEPT ![v] = [alive |-> TRUE, size_ |-> n,
                                                capacity_ |-> n, data_ |-> a.p]],
                            h1, NoRet, FALSE, FALSE)
           \/ MayFail(n) /\ AllocFails(call)

\* SimpleVector(size_t size, const Type& value)
CtorFillCopy(v, n, value) ==
    /\ ~Alive(v)
    /\ LET call == Call("SimpleVector(size,value)", v, v, "copy", value, n)
       IN  \/ /\ CanAlloc(heap, n)
              /\ LET a  == ArrayPtrNew(heap, n)
                     h1 == StdFill(a.h, a.p, 0, n, value)
                 IN  Commit(call,
                            [vec EXCEPT ![v] = [alive |-> TRUE, size_ |-> n,
                                                capacity_ |-> n, data_ |-> a.p]],
                            h1, NoRet, FALSE, FALSE)
           \/ MayFail(n) /\ AllocFails(call)

\* SimpleVector(size_t size, Type&& value)
CtorFillMove(v, n, value) ==
    /\ ~Alive(v)
    /\ LET call == Call("SimpleVector(size,value)", v, v, "move", value, n)
       IN  \/ /\ CanAlloc(heap, n)
              /\ LET a  == ArrayPtrNew(heap, n)
                     h1 == GenerateMoved(a.h, a.p, 0, n, value)
                 IN  Commit(call,
                            [vec EXCEPT ![v] = [alive |-> TRUE, size_ |-> n,
                                                capacity_ |-> n, data_ |-> a.p]],
                            h1, NoRet, FALSE, FALSE)
           \/ MayFail(n) /\ AllocFails(call)

\* SimpleVector(std::initializer_list<Type> init)
CtorInitList(v, init) ==
    /\ ~Alive(v)
    /\ LET call == [Call("SimpleVector(initializer_list)", v, v, "none", Default, Len(init))
                       EXCEPT !.init = init]
       IN  \/ /\ CanAlloc(heap, Len(init))
              /\ LET a  == ArrayPtrNew(heap, Len(init))
                     h1 == CopyList(a.h, a.p, init, 0)
                 IN  Commit(call,
                            [vec EXCEPT ![v] = [alive |-> TRUE, size_ |-> Len(init),
                                                capacity_ |-> Len(init), data_ |-> a.p]],
                            h1, NoRet, FALSE, FALSE)
           \/ MayFail(Len(init)) /\ AllocFails(call)

\* a variant of CopyConstruct: the new object takes other's fields and buffer as they are
CopyConstructShallow(h, other, g) == [h |-> h, obj |-> other, df |-> FALSE]

\* The body of SimpleVector(const SimpleVector& other) on the heap h: the new object
\* starts from the default member initialisers, tmp_vector(other.GetSize()) is filled
\* from other and swapped in, and tmp_vector is destroyed holding nullptr.
CopyConstruct(h, other, g) ==
    LET a   == ArrayPtrNew(h, other.size_)
        h1  == StdFill(a.h, a.p, 0, other.size_, Default)
        tmp == [alive |-> TRUE, size_ |-> other.size_, capacity_ |-> other.size_,
                data_ |-> a.p]
        h2  == StdCopy(h1, other.data_, 0, other.size_, tmp.data_, 0, g)
        sw  == SwapObj(Empty, tmp)
    IN  [h |-> ArrayPtrDelete(h2, sw.other.data_), obj |-> sw.this,
         df |-> IsDoubleFree(h2, sw.other.data_)]

\* SimpleVector(const SimpleVector& other)
CtorCopy(v, w) ==
    /\ ~Alive(v) /\ Alive(w)
    /\ LET call == Call("SimpleVector(const SimpleVector&)", v, w, "copy", Default, 0)
           oob  == RangeOob(heap, vec[w].data_, 0, vec[w].size_)
       IN  \/ /\ CanAlloc(heap, vec[w].size_)
              /\ \E g \in Garbage(oob) :
                   LET c == CopyConstruct(heap, vec[w], g)
                   IN  Commit(call, [vec EXCEPT ![v] = c.obj], c.h, NoRet, c.df, oob)
           \/ MayFail(vec[w].size_) /\ AllocFails(call)

\* SimpleVector(SimpleVector&& other)
CtorMove(v, w) ==
    /\ ~Alive(v) /\ Alive(w)
    /\ LET sw == SwapObj(Empty, vec[w])
       IN  Commit(Call("SimpleVector(SimpleVector&&)", v, w, "move", Default, 0),
                  [vec EXCEPT ![v] = sw.this, ![w] = sw.other], heap, NoRet, FALSE, FALSE)

\* ~SimpleVector(): the member data_ releases its buffer
Dtor(v) ==
    /\ Alive(v)
    /\ Commit(Call("~SimpleVector()", v, v, "none", Default, 0),
              [vec EXCEPT ![v] = Dead], ArrayPtrDelete(heap, vec[v].data_), NoRet,
              IsDoubleFree(heap, vec[v].data_), FALSE)

\* ---------------------------------------------------------------- assignment
\* SimpleVector& operator=(const SimpleVector& rhs)
AssignCopy(v, w) ==
    /\ Alive(v) /\ Alive(w)
    /\ LET call == Call("operator=(const SimpleVector&)", v, w, "copy", Default, 0)
           oob  == RangeOob(heap, vec[w].data_, 0, vec[w].size_)
       IN  IF v # w
           THEN \/ /\ CanAlloc(heap, vec[w].size_)
                   /\ \E g \in Garbage(oob) :
                        LET c  == CopyConstruct(heap, vec[w], g)
                            sw == SwapObj(vec[v], c.obj)
                        IN  Commit(call, [vec EXCEPT ![v] = sw.this],
                                   ArrayPtrDelete(c.h, sw.other.data_), NoRet,
                                   c.df \/ IsDoubleFree(c.h, sw.other.data_), oob)
                \/ MayFail(vec[w].size_) /\ AllocFails(call)
           ELSE Commit(call, vec, heap, NoRet, FALSE, FALSE)

\* SimpleVector& operator=(SimpleVector&& rhs) noexcept
AssignMove(v, w, how) ==
    /\ Alive(v) /\ Alive(w)
    /\ IF v # w
       THEN LET m == ArrayPtrMoveAssign(heap, vec[v].data_, vec[w].data_, how)
            IN  Commit(Call("operator=(SimpleVector&&)", v, w, "move", Default, 0),
                       [vec EXCEPT ![v] = [vec[v] EXCEPT !.data_ = m.p,
                                                         !.size_ = vec[w].size_,
                                                         !.capacity_ = vec[w].capacity_],
                                   ![w] = [vec[w] EXCEPT !.data_ = m.q]],
                       m.h, NoRet, m.df, FALSE)
       ELSE Commit(Call("operator=(SimpleVector&&)", v, w, "move", Default, 0),
                   vec, heap, NoRet, FALSE, FALSE)

\* void swap(SimpleVector& other) noexcept
swap(v, w) ==
    /\ Alive(v) /\ Alive(w)
    /\ LET sw == SwapObj(vec[v], vec[w])
       IN  Commit(Call("swap", v, w, "none", Default, 0),
                  IF v = w THEN vec ELSE [vec EXCEPT ![v] = sw.this, ![w] = sw.other],
                  heap, NoRet, FALSE, FALSE)

\* a == b, a != b, a < b, a <= b, a > b, a >= b, with a = v and b = w
Compare(v, w) ==
    /\ Alive(v) /\ Alive(w)
    /\ LET oob == \/ RangeOob(heap, vec[v].data_, 0, vec[v].size_)
                  \/ RangeOob(heap, vec[w].data_, 0, vec[w].size_)
       IN  \E g \in Garbage(oob) :
             Commit(Call("compare", v, w, "none", Default, 0), vec, heap,
                    RetCompare(heap, vec[v], vec[w], g), FALSE, oob)

\* ---------------------------------------------------------------- element access
\* Type& At(size_t index) / const Type& At(size_t index) const
At(v, index) ==
    /\ Alive(v)
    /\ IF AtThrows(index, vec[v].size_)
       THEN Commit(Call("At", v, v, "none", Default, index), vec, heap,
                   AtError(index), FALSE, FALSE)
       ELSE LET oob == ~InBuf(heap, vec[v].data_, index)
            IN  \E g \in Garbage(oob) :
                  Commit(Call("At", v, v, "none", Default, index), vec, heap,
                         RetRef(vec[v].data_, index, Rd(heap, vec[v].data_, index, g)),
                         FALSE, oob)

\* ---------------------------------------------------------------- size and capacity
\* a variant of Clear: the capacity is reset with the size
ClearCapacity(v) ==
    /\ Alive(v)
    /\ Commit(Call("Clear", v, v, "none", Default, 0),
              [vec EXCEPT ![v].size_ = 0, ![v].capacity_ = 0], heap, NoRet, FALSE, FALSE)

\* void Clear() noexcept
Clear(v) ==
    /\ Alive(v)
    /\ Commit(Call("Clear", v, v, "none", Default, 0),
              [vec EXCEPT ![v].size_ = 0], heap, NoRet, FALSE, FALSE)

\* void Reserve(size_t new_capacity)
Reserve(v, new_capacity) ==
    /\ Alive(v)
    /\ LET t    == vec[v]
           call == Call("Reserve", v, v, "none", Default, new_capacity)
       IN  IF ReserveGrows(new_capacity, t.capacity_)
           THEN \/ /\ CanAlloc(heap, new_capacity)
                   /\ LET oob == RangeOob(heap, t.data_, 0, t.size_)
                      IN  \E g \in Garbage(oob) :
                            LET a  == ArrayPtrNew(heap, new_capacity)
                                h1 == StdMove(a.h, t.data_, 0, t.size_, a.p, 0, g)
                                sw == ArrayPtrSwap(t.data_, a.p)
                            IN  Commit(call,
                                       [vec EXCEPT ![v].data_ = sw.p,
                                                   ![v].capacity_ = new_capacity],
                                       ArrayPtrDelete(h1, sw.q), NoRet,
                                       IsDoubleFree(h1, sw.q), oob)
                \/ MayFail(new_capacity) /\ AllocFails(call)
           ELSE Commit(call, vec, heap, NoRet, FALSE, FALSE)

\* void Resize(size_t new_size)
Resize(v, new_size) ==
    /\ Alive(v)
    /\ LET t    == vec[v]
           call == Call("Resize", v, v, "none", Default, new_size)
       IN  IF new_size <= t.size_
           THEN Commit(call, [vec EXCEPT ![v].size_ = new_size], heap, NoRet, FALSE, FALSE)
           ELSE IF new_size <= t.capacity_
           THEN LET h1 == StdFill(heap, t.data_, t.size_, new_size, Default)
                IN  Commit(call, [vec EXCEPT ![v].size_ = new_size], h1, NoRet, FALSE,
                           RangeOob(heap, t.data_, t.size_, new_size))
           ELSE LET new_cap == ResizeCapacity(new_size, t.capacity_)
                    oob     == RangeOob(heap, t.data_, 0, t.size_)
                IN  \/ /\ CanAlloc(heap, new_cap)
                       /\ \E g \in Garbage(oob) :
                            LET a  == ArrayPtrNew(heap, new_cap)
                                h1 == StdMove(a.h, t.data_, 0, t.size_, a.p, 0, g)
                                h2 == StdFill(h1, a.p, t.size_, new_size, Default)
                                sw == ArrayPtrSwap(t.data_, a.p)
                            IN  Commit(call,
                                       [vec EXCEPT ![v].data_ = sw.p,
                                                   ![v].capacity_ = new_cap,
                                                   ![v].size_ = new_size],
                                       ArrayPtrDelete(h2, sw.q), NoRet,
                                       IsDoubleFree(h2, sw.q), oob)
                    \/ MayFail(new_cap) /\ AllocFails(call)

\* void PopBack() noexcept; assert(size_ > 0)
PopBack(v) ==
    /\ Alive(v)
    /\ vec[v].size_ > 0
    /\ Commit(Call("PopBack", v, v, "none", Default, 0),
              [vec EXCEPT ![v].size_ = @ - 1], heap, NoRet, FALSE, FALSE)

\* ---------------------------------------------------------------- insertion and removal
\* void PushBack(const Type& item) / void PushBack(Type&& item); the item is not an
\* element of the vector
PushBack(v, item, form) ==
    /\ Alive(v)
    /\ LET t    == vec[v]
           call == Call("PushBack", v, v, form, item, t.size_)
       IN  IF IsFull(t)
           THEN LET new_cap == GrowCapacity(t.capacity_)
                    oob     == RangeOob(heap, t.data_, 0, t.size_)
                IN  \/ /\ CanAlloc(heap, new_cap)
                       /\ \E g \in Garbage(oob) :
                            LET a  == ArrayPtrNew(heap, new_cap)
                                h1 == StdMove(a.h, t.data_, 0, t.size_, a.p, 0, g)
                                h2 == Wr(h1, a.p, t.size_, item)
                                sw == ArrayPtrSwap(t.data_, a.p)
                            IN  Commit(call,
                                       [vec EXCEPT ![v].data_ = sw.p,
                                                   ![v].capacity_ = new_cap,
                                                   ![v].size_ = @ + 1],
                                       ArrayPtrDelete(h2, sw.q), NoRet,
                                       IsDoubleFree(h2, sw.q), oob)
                    \/ MayFail(new_cap) /\ AllocFails(call)
           ELSE Commit(call, [vec EXCEPT ![v].size_ = @ + 1],
                       Wr(heap, t.data_, t.size_, item), NoRet, FALSE,
                       ~InBuf(heap, t.data_, t.size_))

\* Iterator Insert(ConstIterator pos, const Type& value) /
\* Iterator Insert(ConstIterator pos, Type&& value), pos = begin() + it;
\* assert(pos >= begin() && pos <= end()); the value is not an element of the vector
Insert(v, it, value, form) ==
    /\ Alive(v)
    /\ it >= 0 /\ it <= vec[v].size_
    /\ LET t    == vec[v]
           call == Call("Insert", v, v, form, value, it)
       IN  IF IsFull(t)
           THEN LET new_cap == GrowCapacity(t.capacity_)
                    oob     == RangeOob(heap, t.data_, 0, t.size_)
                IN  \/ /\ CanAlloc(heap, new_cap)
                       /\ \E g \in Garbage(oob) :
                            LET a  == ArrayPtrNew(heap, new_cap)
                                h1 == IF form = "copy"
                                      THEN StdCopy(a.h, t.data_, 0, it, a.p, 0, g)
                                      ELSE StdMove(a.h, t.data_, 0, it, a.p, 0, g)
                                h2 == Wr(h1, a.p, it, value)
                                h3 == IF form = "copy"
                                      THEN StdCopy(h2, t.data_, it, t.size_, a.p, it + 1, g)
                                      ELSE StdMove(h2, t.data_, it, t.size_, a.p, it + 1, g)
                                sw == ArrayPtrSwap(t.data_, a.p)
                            IN  Commit(call,
                                       [vec EXCEPT ![v].data_ = sw.p,
                                                   ![v].capacity_ = new_cap,
                                                   ![v].size_ = @ + 1],
                                       ArrayPtrDelete(h3, sw.q), RetIter(sw.p, it),
                                       IsDoubleFree(h3, sw.q), oob)
                    \/ MayFail(new_cap) /\ AllocFails(call)
           ELSE LET oob == RangeOob(heap, t.data_, it, t.size_ + 1)
                IN  \E g \in Garbage(oob) :
                      LET h1 == IF form = "copy"
                                THEN StdCopyBackward(heap, t.data_, it, t.size_,
                                                     t.data_, t.size_ + 1, g)
                                ELSE StdMoveBackward(heap, t.data_, it, t.size_,
                                                     t.data_, t.size_ + 1, g)
                          h2 == Wr(h1, t.data_, it, value)
                      IN  Commit(call, [vec EXCEPT ![v].size_ = @ + 1], h2,
                                 RetIter(t.data_, it), FALSE, oob)

\* void PushBack(const Type& item) with item = (*this)[i], a reference to an element
\* of the vector: the item is read when it is assigned, after the elements were moved
\* to the new buffer
PushBackElem(v, i) ==
    /\ Alive(v)
    /\ i >= 0 /\ i < vec[v].size_
    /\ LET t   == vec[v]
           oob == RangeOob(heap, t.data_, 0, t.size_)
       IN  \E g \in Garbage(oob) :
             LET call == Call("PushBack(v[i])", v, v, "copy", Rd(heap, t.data_, i, g), i)
             IN  IF IsFull(t)
                 THEN LET new_cap == GrowCapacity(t.capacity_)
                      IN  \/ /\ CanAlloc(heap, new_cap)
                             /\ LET a  == ArrayPtrNew(heap, new_cap)
                                    h1 == StdMove(a.h, t.data_, 0, t.size_, a.p, 0, g)
                                    h2 == Wr(h1, a.p, t.size_, Rd(h1, t.data_, i, g))
                                    sw == ArrayPtrSwap(t.data_, a.p)
                                IN  Commit(call,
                                           [vec EXCEPT ![v].data_ = sw.p,
                                                       ![v].capacity_ = new_cap,
                                                       ![v].size_ = @ + 1],
                                           ArrayPtrDelete(h2, sw.q), NoRet,
                                           IsDoubleFree(h2, sw.q), oob)
                          \/ MayFail(new_cap) /\ AllocFails(call)
                 ELSE Commit(call, [vec EXCEPT ![v].size_ = @ + 1],
                             Wr(heap, t.data_, t.size_, Rd(heap, t.data_, i, g)), NoRet,
                             FALSE, oob \/ ~InBuf(heap, t.data_, t.size_))

\* Iterator Insert(ConstIterator pos, const Type& value) with pos = begin() + it and
\* value = (*this)[j], a reference to an element of the vector: the value is read when
\* it is assigned, after the suffix was shifted
InsertElem(v, it, j) ==
    /\ Alive(v)
    /\ it >= 0 /\ it <= vec[v].size_
    /\ j >= 0 /\ j < vec[v].size_
    /\ LET t   == vec[v]
           oob == RangeOob(heap, t.data_, 0, t.size_ + (IF IsFull(t) THEN 0 ELSE 1))
       IN  \E g \in Garbage(oob) :
             LET call == Call("Insert(pos,v[j])", v, v, "copy", Rd(heap, t.data_, j, g), it)
             IN  IF IsFull(t)
                 THEN LET new_cap == GrowCapacity(t.capacity_)
                      IN  \/ /\ CanAlloc(heap, new_cap)
                             /\ LET a  == ArrayPtrNew(heap, new_cap)
                                    h1 == StdCopy(a.h, t.data_, 0, it, a.p, 0, g)
                                    h2 == Wr(h1, a.p, it, Rd(h1, t.data_, j, g))
                                    h3 == StdCopy(h2, t.data_, it, t.size_, a.p, it + 1, g)
                                    sw == ArrayPtrSwap(t.data_, a.p)
                                IN  Commit(call,
                                           [vec EXCEPT ![v].data_ = sw.p,
                                                       ![v].capacity_ = new_cap,
                                                       ![v].size_ = @ + 1],
                                           ArrayPtrDelete(h3, sw.q), RetIter(sw.p, it),
                                           IsDoubleFree(h3, sw.q), oob)
                          \/ MayFail(new_cap) /\ AllocFails(call)
                 ELSE LET h1 == StdCopyBackward(heap, t.data_, it, t.size_,
                                                t.data_, t.size_ + 1, g)
                          h2 == Wr(h1, t.data_, it, Rd(h1, t.data_, j, g))
                      IN  Commit(call, [vec EXCEPT ![v].size_ = @ + 1], h2,
                                 RetIter(t.data_, it), FALSE, oob)

\* Iterator Erase(ConstIterator pos), pos = begin() + it;
\* assert(pos >= begin() && pos < end())
Erase(v, it) ==
    /\ Alive(v)
    /\ it >= 0 /\ it < vec[v].size_
    /\ LET t   == vec[v]
           oob == RangeOob(heap, t.data_, it, t.size_)
       IN  \E g \in Garbage(oob) :
             LET h1 == StdMove(heap, t.data_, it + 1, t.size_, t.data_, it, g)
             IN  Commit(Call("Erase", v, v, "none", Default, it),
                        [vec EXCEPT ![v].size_ = @ - 1], h1, RetIter(t.data_, it),
                        FALSE, oob)

\* ---------------------------------------------------------------- the program
\* initializer lists of up to MaxCap values
RECURSIVE SeqsUpTo(_)
SeqsUpTo(n) ==
    IF n = 0 THEN {<<>>}
    ELSE LET S == SeqsUpTo(n - 1)
         IN  S \cup {Append(s, x) : s \in {q \in S : Len(q) = n - 1}, x \in Vals}

Start ==
    /\ vec = [v \in Vecs |-> Dead]
    /\ heap = [p \in BufIds |-> NoBuf]
    /\ last = NoCall
    /\ doubleFree = FALSE
    /\ crashed = FALSE

\* a program of two vectors
Init ==
    /\ Start
    /\ capLimit = MaxCapTwo
    /\ Vals = {Default, MaxVal}
    /\ typeKind = "movable"

\* a program of one vector
InitSolo ==
    /\ Start
    /\ capLimit = MaxCap
    /\ Vals = {Default, MaxVal}
    /\ typeKind \in {"trivial", "movable"}

\* the observed call was Reserve or Clear on v, the program's only vector, and
\* PushBacks on v are observed with it
Chained(v) ==
    /\ ~crashed /\ last.op \in {"Reserve", "Clear"} /\ ~last.ub /\ last.v = v /\ Open
    /\ \A u \in Vecs \ {v} : ~Alive(u)

\* the values PushBack is called with: any value, and one value in the PushBacks
\* observed after a Clear, where only the buffer and the capacity are looked at
PushVals == IF last.op = "Clear" THEN {MaxVal} ELSE Vals

\* the calls that involve one vector
Unary(V) ==
    \/ Running /\ \E v \in V : CtorDefault(v)
    \/ Running /\ \E v \in V, n \in 0..capLimit : CtorReserve(v, n)
    \/ Running /\ \E v \in V, n \in 0..capLimit : CtorSize(v, n)
    \/ Running /\ \E v \in V, n \in 0..capLimit, x \in Vals : CtorFillCopy(v, n, x)
    \/ Running /\ \E v \in V, n \in 0..capLimit, x \in Vals : CtorFillMove(v, n, x)
    \/ Running /\ \E v \in V, init \in SeqsUpTo(capLimit) : CtorInitList(v, init)
    \/ Running /\ \E v \in V : Dtor(v)
    \/ Running /\ \E v \in V, i \in 0..(capLimit + 1) : At(v, i)
    \/ Running /\ \E v \in V : Clear(v)
    \/ Running /\ \E v \in V, n \in 0..capLimit : Reserve(v, n)
    \/ Running /\ \E v \in V, n \in 0..capLimit : Resize(v, n)
    \/ Running /\ \E v \in V : PopBack(v)
    \/ \E v \in V : (Running \/ Chained(v)) /\ \E x \in PushVals, form \in Forms : PushBack(v, x, form)
    \/ Running /\ \E v \in V, i \in 0..capLimit, x \in Vals, form \in Forms : Insert(v, i, x, form)
    \/ Running /\ \E v \in V, i \in 0..capLimit : PushBackElem(v, i)
    \/ Running /\ \E v \in V, i \in 0..capLimit, j \in 0..capLimit : InsertElem(v, i, j)
    \/ Running /\ \E v \in V, i \in 0..capLimit : Erase(v, i)

\* the construction of one vector from another
Binary(V) ==
    \/ Running /\ \E v \in V, w \in V : CtorCopy(v, w)
    \/ Running /\ \E v \in V, w \in V : CtorMove(v, w)

\* the calls on two vectors, or on one vector and itself
Assign(V) ==
    \/ Running /\ \E v \in V, w \in V : AssignCopy(v, w)
    \/ Running /\ \E v \in V, w \in V, how \in MoveAssignHow : AssignMove(v, w, how)
    \/ Running /\ \E v \in V, w \in V : swap(v, w)
    \/ Running /\ \E v \in V, w \in V : Compare(v, w)

Next == Unary(Vecs) \/ Binary(Vecs) \/ Assign(Vecs)

NextSolo == Unary({"a"}) \/ Assign({"a"})

Spec == Init /\ [][Next]_vars

SpecSolo == InitSolo /\ [][NextSolo]_vars

\* ---------------------------------------------------------------- properties
\* the vector the observed call ran on, before and after the call
Target == last.v
Pre == last.pre[last.v]
Now == Elems(vec, heap, last.v)
Size == vec[last.v].size_
Capacity == vec[last.v].capacity_
Data == vec[last.v].data_
\* the observed call returned: it did not throw
Returned == last.ret.kind # "throw"

\* the capacity after PushBack or Insert on a vector of size L and capacity C
GrownCapacity(L, C) == IF L < C THEN C ELSE IF C = 0 THEN 1 ELSE 2 * C

\* C1: after every call, every vector, the source of a move included, has
\* GetSize() <= GetCapacity().
C1_SizeWithinCapacity == \A v \in Vecs : vec[v].size_ <= vec[v].capacity_

\* C1 witness: a move assignment has run and its source still reports elements
C1_Witness ==
    /\ last.op = "operator=(SimpleVector&&)"
    /\ last.v # last.w
    /\ vec[last.w].size_ > 0
    /\ vec[last.v].size_ > 0

\* C2: no two vectors hold the same buffer, every buffer a vector holds is allocated,
\* and no buffer has been released twice.
C2_SingleOwner ==
    /\ ~doubleFree
    /\ \A v \in Vecs :
         (vec[v].alive /\ vec[v].data_ # Null) =>
           /\ heap[vec[v].data_].live
           /\ \A w \in Vecs \ {v} : vec[w].alive => vec[w].data_ # vec[v].data_

\* C2 witness: a move construction has handed a buffer from one vector to the other
C2_Witness ==
    /\ last.op = "SimpleVector(SimpleVector&&)"
    /\ vec[last.v].data_ # Null
    /\ vec[last.v].data_ = last.pre[last.w].data
    /\ vec[last.w].alive

\* C3 (as claimed): after a = std::move(b) with a and b distinct, b's size and capacity
\* do not exceed the slots of the buffer b holds.
C3_MovedFromValid ==
    (last.op = "operator=(SimpleVector&&)" /\ last.v # last.w)
      => WellFormed(vec, heap, last.w)

\* C4: PushBack(v), in either form, on a vector with contents s and capacity c yields
\* s followed by v, size + 1, and capacity c if size < c, 1 if c = 0, 2c if size = c > 0
\* (so that pushes on an empty vector pass through the capacities 1, 2, 4, ...).  The
\* vector has contents: its size lies within its buffer.
C4_PushBack ==
    (last.op = "PushBack" /\ Pre.wf /\ Returned) =>
      /\ ~last.ub /\ ~crashed
      /\ Now = Append(Pre.elems, last.arg)
      /\ Size = Pre.size + 1
      /\ Capacity = GrownCapacity(Pre.size, Pre.cap)

\* C4 witness: the third PushBack of 1, 2, 4: a full vector of capacity 2 has grown to 4
C4_Witness ==
    /\ last.op = "PushBack" /\ last.form = "move"
    /\ Returned
    /\ Pre.size = 2 /\ Pre.cap = 2
    /\ Capacity = 4 /\ Size = 3

\* C5 (as claimed): after Reserve(k), the next N <= k PushBacks do not replace the
\* buffer, and the capacity stays k.
C5_ReserveThenPush ==
    (last.op = "Reserve" /\ Pre.wf /\ Returned /\ last.pushes <= last.idx) =>
      /\ ~last.replaced
      /\ Capacity = last.idx

\* C5 (amended): after Reserve(k) on a vector of size s, the next N <= k - s PushBacks
\* do not replace the buffer, and the capacity stays the larger of k and the capacity
\* before the Reserve.
C5_ReserveThenPushFits ==
    (last.op = "Reserve" /\ Pre.wf /\ Returned /\ last.pushes <= last.idx - Pre.size) =>
      /\ ~last.ub /\ ~crashed /\ ~last.failed
      /\ ~last.replaced
      /\ Capacity = Max(last.idx, Pre.cap)
      /\ Size = Pre.size + last.pushes

\* C5 witness: Reserve(k) took a new buffer for a vector that held an element, and the
\* k - s PushBacks that fit have run
C5_Witness ==
    /\ last.op = "Reserve"
    /\ Returned
    /\ last.idx > Pre.cap
    /\ Pre.size > 0
    /\ last.pushes >= 2
    /\ last.pushes = last.idx - Pre.size

\* C6: Reserve(n) with n > capacity sets the capacity to n and keeps the size and the
\* elements; Reserve(n) with n <= capacity changes nothing (size, capacity, buffer,
\* slots).
C6_Reserve ==
    (last.op = "Reserve" /\ last.pushes = 0 /\ Pre.wf /\ Returned) =>
      /\ ~last.ub /\ ~crashed
      /\ Size = Pre.size
      /\ Now = Pre.elems
      /\ Capacity >= Pre.cap
      /\ IF last.idx > Pre.cap
         THEN Capacity = last.idx /\ NSlots(heap, Data) = last.idx
         ELSE /\ Capacity = Pre.cap
              /\ Data = Pre.data
              /\ (Data # Null => heap[Data].slots = Pre.slots)

\* C6 witness: Reserve has grown a vector that holds elements
C6_Witness ==
    /\ last.op = "Reserve" /\ last.pushes = 0
    /\ Returned
    /\ last.idx > Pre.cap
    /\ Pre.size >= 2
    /\ Pre.elems[1] # Pre.elems[2]

\* C7: Resize(n) on a vector of contents s, size L and capacity C yields size n, the
\* first min(L, n) elements of s, Type() at [L, n) whatever those slots held, and
\* capacity C if n <= C, max(n, 2C) otherwise.
C7_Resize ==
    (last.op = "Resize" /\ Pre.wf /\ Returned) =>
      /\ ~last.ub /\ ~crashed
      /\ Size = last.idx
      /\ \A i \in 1..last.idx :
           Now[i] = IF i <= Pre.size THEN Pre.elems[i] ELSE Default
      /\ Capacity = IF last.idx <= Pre.cap THEN Pre.cap ELSE Max(last.idx, 2 * Pre.cap)

\* C7 witness: Resize has grown a vector within its capacity over a slot that held
\* another value
C7_Witness ==
    /\ last.op = "Resize"
    /\ Returned
    /\ Pre.size < last.idx /\ last.idx <= Pre.cap
    /\ \E i \in (Pre.size + 1)..last.idx : Pre.slots[i] # Default

\* C8: Insert(begin() + i, v), in either form, with 0 <= i <= size yields
\* s[0, i), v, s[i, size), size + 1, the iterator begin() + i of the result, which
\* refers to v, and the capacity of C4.
C8_Insert ==
    (last.op = "Insert" /\ Pre.wf /\ Returned) =>
      /\ ~last.ub /\ ~crashed
      /\ Now = SubSeq(Pre.elems, 1, last.idx) \o <<last.arg>>
                 \o SubSeq(Pre.elems, last.idx + 1, Pre.size)
      /\ Size = Pre.size + 1
      /\ last.ret = RetIter(Data, last.idx)
      /\ InBuf(heap, last.ret.buf, last.ret.off)
      /\ Rd(heap, last.ret.buf, last.ret.off, Default) = last.arg
      /\ Capacity = GrownCapacity(Pre.size, Pre.cap)

\* C8 witness: an Insert before the end into a vector with room has shifted a suffix
\* of two unequal elements
C8_Witness ==
    /\ last.op = "Insert"
    /\ Returned
    /\ Pre.size < Pre.cap
    /\ last.idx + 2 <= Pre.size
    /\ Pre.elems[last.idx + 1] # Pre.elems[last.idx + 2]

\* C9: Erase(begin() + i) with 0 <= i < size yields s[0, i), s[i + 1, size), size - 1,
\* the same capacity, and the iterator begin() + i, which refers to the element that
\* followed the erased one, or is end() when the last element was erased.
C9_Erase ==
    (last.op = "Erase" /\ Pre.wf) =>
      /\ ~last.ub /\ ~crashed
      /\ Now = SubSeq(Pre.elems, 1, last.idx) \o SubSeq(Pre.elems, last.idx + 2, Pre.size)
      /\ Size = Pre.size - 1
      /\ Capacity = Pre.cap
      /\ Data = Pre.data
      /\ last.ret = RetIter(Data, last.idx)
      /\ IF last.idx + 1 < Pre.size
         THEN Rd(heap, last.ret.buf, last.ret.off, Default) = Pre.elems[last.idx + 2]
         ELSE last.ret.off = Size

\* C9 witness: an Erase has closed a gap before two unequal elements
C9_Witness ==
    /\ last.op = "Erase"
    /\ last.idx + 3 <= Pre.size
    /\ Pre.elems[last.idx + 2] # Pre.elems[last.idx + 3]

\* C10 (as claimed): for every vector in every reachable state, At(i) throws exactly
\* when i >= GetSize(), otherwise returns the element at index i, and leaves the
\* vector as it was.
C10_At ==
    (last.op = "At") =>
      IF last.idx >= Pre.size
      THEN last.ret = RetThrow("index out of range")
           /\ Size = Pre.size /\ Capacity = Pre.cap /\ Data = Pre.data
      ELSE /\ ~last.ub /\ ~crashed
           /\ last.ret.kind = "ref"
           /\ last.ret.buf = Data /\ last.ret.off = last.idx
           /\ InBuf(heap, Data, last.idx)
           /\ Size = Pre.size /\ Capacity = Pre.cap /\ Data = Pre.data

\* the second vector of the observed call, and the vectors as they were before it
Other == last.w
PreOf(u) == last.pre[u]

\* the vector u is as it was before the observed call: its size, capacity, buffer and
\* every slot of the buffer
Same(u) ==
    /\ vec[u].alive = PreOf(u).alive
    /\ vec[u].size_ = PreOf(u).size
    /\ vec[u].capacity_ = PreOf(u).cap
    /\ vec[u].data_ = PreOf(u).data
    /\ vec[u].data_ # Null =>
         heap[vec[u].data_].live /\ heap[vec[u].data_].slots = PreOf(u).slots

CopyOps == {"SimpleVector(const SimpleVector&)", "operator=(const SimpleVector&)"}
MoveOps == {"SimpleVector(SimpleVector&&)", "operator=(SimpleVector&&)"}
Mutators == {"Reserve", "Resize", "PushBack", "Insert", "Erase", "PopBack", "Clear"}

\* C11: after copy construction or copy assignment from an original with contents, the
\* copy has the original's size and elements and compares equal to it, the original is
\* as it was, and the copy's buffer is not the original's; copy assignment of a vector
\* to itself leaves it as it was; and in every reachable state, so also after a copy
\* and any calls that followed it, a mutating call on one vector leaves every other
\* vector as it was.
C11_CopyIndependent ==
    /\ (last.op \in CopyOps /\ Target # Other /\ PreOf(Other).wf /\ Returned) =>
         /\ ~last.ub /\ ~crashed
         /\ Size = PreOf(Other).size
         /\ Now = PreOf(Other).elems
         /\ OpEqual(heap, vec[Target], vec[Other], Default)
         /\ WellFormed(vec, heap, Target)
         /\ Data = Null \/ Data # vec[Other].data_
         /\ Same(Other)
    /\ (last.op \in CopyOps /\ Target = Other) => Same(Target)
    /\ (last.op \in Mutators /\ Pre.wf) => \A u \in Vecs \ {Target} : Same(u)

\* C11 witness: a copy assignment has replaced the buffer of a vector by a copy of two
\* unequal elements
C11_Witness ==
    /\ last.op = "operator=(const SimpleVector&)" /\ Returned
    /\ Target # Other
    /\ Pre.data # Null
    /\ PreOf(Other).size = 2
    /\ PreOf(Other).elems[1] # PreOf(Other).elems[2]

\* C12: after move construction or move assignment from another vector with contents
\* s, size L and capacity C, the destination has size L, capacity C, contents s and the
\* buffer the source held, untouched, and no longer holds the buffer it held before.
C12_MoveTransfers ==
    (last.op \in MoveOps /\ Target # Other /\ PreOf(Other).wf) =>
      /\ ~last.ub /\ ~crashed
      /\ Size = PreOf(Other).size
      /\ Capacity = PreOf(Other).cap
      /\ Now = PreOf(Other).elems
      /\ Data = PreOf(Other).data
      /\ Data # Null => heap[Data].live /\ heap[Data].slots = PreOf(Other).slots
      /\ Pre.data # Null => Data # Pre.data

\* C12 witness: a move assignment has handed two unequal elements to a vector that
\* held a buffer
C12_Witness ==
    /\ last.op = "operator=(SimpleVector&&)"
    /\ Target # Other
    /\ Pre.data # Null
    /\ PreOf(Other).size = 2
    /\ PreOf(Other).elems[1] # PreOf(Other).elems[2]

\* C13: after move construction the source is alive with size 0, capacity 0 and no
\* buffer: the state of a default-constructed vector.
C13_MoveCtorSourceEmpty ==
    (last.op = "SimpleVector(SimpleVector&&)") =>
      /\ ~last.ub /\ ~crashed
      /\ vec[Other].alive
      /\ vec[Other].size_ = 0
      /\ vec[Other].capacity_ = 0
      /\ vec[Other].data_ = Null

\* C13 witness: the source of a move construction held elements in a buffer
C13_Witness ==
    /\ last.op = "SimpleVector(SimpleVector&&)"
    /\ PreOf(Other).size >= 1
    /\ PreOf(Other).data # Null
    /\ Data = PreOf(Other).data

\* C14: a Reserve, Resize, PushBack, Insert, copy construction or copy assignment whose
\* allocation fails throws and leaves every vector, the target included, as it was:
\* size, capacity, buffer and every slot (a vector under construction does not exist).
C14_AllocFailure ==
    (last.ret = RetThrow("std::bad_alloc")) =>
      /\ ~last.ub /\ ~crashed
      /\ \A u \in Vecs : Same(u)

\* C14 witness: the allocation of a copy assignment to a vector that holds elements
\* has failed
C14_Witness ==
    /\ last.op = "operator=(const SimpleVector&)"
    /\ last.ret = RetThrow("std::bad_alloc")
    /\ Target # Other
    /\ Pre.size >= 1
    /\ Pre.data # Null

\* C15: Clear sets the size to 0 and PopBack decreases it by one, and both leave the
\* capacity, the buffer and every slot as they were; after Clear, up to GetCapacity()
\* PushBacks do not replace the buffer and the capacity stays.
C15_ClearPopBack ==
    /\ (last.op = "Clear" /\ last.pushes = 0) =>
         /\ Size = 0
         /\ Capacity = Pre.cap /\ Data = Pre.data
         /\ Data # Null => heap[Data].slots = Pre.slots
    /\ (last.op = "PopBack") =>
         /\ Size = Pre.size - 1
         /\ Capacity = Pre.cap /\ Data = Pre.data
         /\ Data # Null => heap[Data].slots = Pre.slots
         /\ Pre.wf => Now = SubSeq(Pre.elems, 1, Pre.size - 1)
    /\ (last.op = "Clear" /\ Pre.wf /\ last.pushes <= Pre.cap) =>
         /\ ~last.ub /\ ~crashed /\ ~last.failed
         /\ ~last.replaced
         /\ Capacity = Pre.cap /\ Data = Pre.data
         /\ Size = last.pushes

\* C15 witness: after the Clear of a vector that held elements, as many PushBacks as
\* the capacity have run
C15_Witness ==
    /\ last.op = "Clear"
    /\ Pre.size >= 2
    /\ last.pushes = Pre.cap

\* C16: the vector constructed from Reserve(n) has size 0, capacity n and a buffer of n
\* slots; the vector constructed by SimpleVector(n) has size n, capacity n and n
\* elements Type().
C16_ReserveCtor ==
    /\ (last.op = "SimpleVector(ReserveProxyObj)" /\ Returned) =>
         /\ vec[Target].alive
         /\ Size = 0
         /\ Capacity = last.idx
         /\ NSlots(heap, Data) = last.idx
    /\ (last.op = "SimpleVector(size)" /\ Returned) =>
         /\ vec[Target].alive
         /\ Size = last.idx
         /\ Capacity = last.idx
         /\ NSlots(heap, Data) = last.idx
         /\ \A i \in 1..last.idx : Now[i] = Default

\* C16 witness: a vector has been constructed from Reserve(n) with n >= 2
C16_Witness ==
    /\ last.op = "SimpleVector(ReserveProxyObj)" /\ Returned
    /\ last.idx >= 2
    /\ Capacity = last.idx

\* s precedes t lexicographically: s is a proper prefix of t, or at the first index
\* where they differ s has the smaller element
SeqPrecedes(s, t) ==
    \E k \in 0..Len(s) :
      /\ k <= Len(t)
      /\ \A i \in 1..k : s[i] = t[i]
      /\ IF k = Len(s) THEN k < Len(t) ELSE k < Len(t) /\ s[k + 1] < t[k + 1]

\* C17: for vectors a and b with contents, a == b iff the sizes and the elements below
\* the size are equal, a < b iff a precedes b lexicographically, !=, >, <=, >= are the
\* derived relations, exactly one of a < b, a == b, a > b holds, and the comparison
\* changes neither vector.
C17_Comparison ==
    (last.op = "compare" /\ PreOf(Target).wf /\ PreOf(Other).wf) =>
      LET a == PreOf(Target).elems
          b == PreOf(Other).elems
          r == last.ret
      IN  /\ ~last.ub /\ ~crashed
          /\ r.eq = (Len(a) = Len(b) /\ \A i \in 1..Len(a) : a[i] = b[i])
          /\ r.lt = SeqPrecedes(a, b)
          /\ r.gt = SeqPrecedes(b, a)
          /\ r.ne = ~r.eq
          /\ r.le = (r.lt \/ r.eq)
          /\ r.ge = (r.gt \/ r.eq)
          /\ (r.lt /\ ~r.eq /\ ~r.gt) \/ (~r.lt /\ r.eq /\ ~r.gt) \/ (~r.lt /\ ~r.eq /\ r.gt)
          /\ Same(Target) /\ Same(Other)

\* C17 witness: two vectors of different capacities compare equal although a slot
\* beyond the size of one of them holds another value
C17_Witness ==
    /\ last.op = "compare"
    /\ PreOf(Target).wf /\ PreOf(Other).wf
    /\ last.ret.eq
    /\ Target # Other
    /\ PreOf(Target).size >= 1
    /\ PreOf(Target).cap < PreOf(Other).cap
    /\ PreOf(Other).slots[PreOf(Other).cap] # Default

\* C18 (as claimed): SimpleVector(size, value), in the const-reference form and in the
\* rvalue form, for element types whose move leaves the source unchanged or changed,
\* yields size `size`, capacity `size` and `size` elements equal to the value passed.
C18_FillCtor ==
    (last.op = "SimpleVector(size,value)" /\ Returned) =>
      /\ Size = last.idx
      /\ Capacity = last.idx
      /\ \A i \in 1..last.idx : Now[i] = last.arg

\* C19 (as claimed): the error At signals for an index >= GetSize() tells the index:
\* it differs from the error At signals for any other index.
C19_AtErrorCarriesIndex ==
    (last.op = "At" /\ last.idx >= Pre.size) =>
      /\ last.ret.kind = "throw"
      /\ \A j \in 0..(capLimit + 1) : j # last.idx => AtError(j) # last.ret

\* C19 (amended): the error At signals for an index >= GetSize() is std::out_of_range
\* with the message "index out of range", the same for every index: it does not tell
\* the index.
C19_AtErrorSame ==
    (last.op = "At" /\ last.idx >= Pre.size) =>
      /\ last.ret = RetThrow("index out of range")
      /\ \A j \in 0..(capLimit + 1) : AtError(j) = last.ret

\* C19 witness: At has rejected an index beyond the size of a vector with elements
\* that it accepts others for
C19_Witness ==
    /\ last.op = "At"
    /\ Pre.size >= 1
    /\ last.idx > Pre.size
    /\ last.ret.kind = "throw"

\* C20 (as claimed): PushBack(v[i]) and Insert(begin() + p, v[j]) with the argument a
\* reference to an element of the vector, full or not, insert the value that element
\* had before the call.
C20_AliasedArgument ==
    /\ (last.op = "PushBack(v[i])" /\ Pre.wf /\ Returned) =>
         /\ ~last.ub /\ ~crashed
         /\ Size = Pre.size + 1
         /\ Now[Pre.size + 1] = last.arg
    /\ (last.op = "Insert(pos,v[j])" /\ Pre.wf /\ Returned) =>
         /\ ~last.ub /\ ~crashed
         /\ Size = Pre.size + 1
         /\ Now[last.idx + 1] = last.arg

====
